---------------------------- MODULE Spec2Model ----------------------------
(***************************************************************************)
(* LC Report Downloader: the authenticated synchronization engine of       *)
(* src/MVC.py (command line) and src/gui.py (window).                      *)
(*                                                                         *)
(* Text is a sequence of one-character strings, so that endswith, rsplit,  *)
(* replace and the string comparison of the date filter are computed as    *)
(* Python computes them.  A catalog entry is a Python dict: a function     *)
(* whose DOMAIN holds the keys the JSON object carries.                    *)
(***************************************************************************)
EXTENDS Integers, Sequences, FiniteSets, TLC

VARIABLES
    env,           \* os.environ of the GUI process: the four credential keys
    reports_data,  \* LCReportDownloader.reports_data
    table,         \* rows of reports_table: <<name, url>> bound to each Download button
    button,        \* download_all_button.isEnabled()
    fs,            \* the reports root: dated folder -> names of its direct children
    last,          \* what the most recent operation did (requests, dialogs, outcomes)
    arg,           \* input of the pure function under check (SpecFilter, SpecDedup)
    res            \* its result

vars == <<env, reports_data, table, button, fs, last, arg, res>>

-----------------------------------------------------------------------------
(* Python str operations on sequences of characters *)

\* the characters used, in code point order
Alphabet ==
    <<"-", ".", "0", "1", "2", "3", "4", "5", "6", "7", "8", "9", "_",
      "a", "c", "r", "s", "t", "v", "x">>

Ord(c) == CHOOSE i \in 1..Len(Alphabet) : Alphabet[i] = c

RECURSIVE StrLeq(_, _)
\* a <= b on Python str: by code point, a proper prefix is smaller
StrLeq(a, b) ==
    IF a = <<>> THEN TRUE
    ELSE IF b = <<>> THEN FALSE
    ELSE IF a[1] = b[1] THEN StrLeq(Tail(a), Tail(b))
    ELSE Ord(a[1]) < Ord(b[1])

\* s.endswith(suffix)
EndsWith(s, suffix) ==
    /\ Len(s) >= Len(suffix)
    /\ SubSeq(s, Len(s) - Len(suffix) + 1, Len(s)) = suffix

\* c in s, for a one-character c
HasChar(s, c) == \E i \in 1..Len(s) : s[i] = c

\* s.rsplit(c, 1)[-1]: the text after the last c (all of s when there is none)
RSplitLast(s, c) ==
    IF HasChar(s, c)
    THEN LET k == CHOOSE i \in 1..Len(s) :
                     /\ s[i] = c
                     /\ \A j \in (i+1)..Len(s) : s[j] # c
         IN SubSeq(s, k + 1, Len(s))
    ELSE s

RECURSIVE RemoveAll(_, _)
\* s.replace(old, ''): every non-overlapping occurrence, left to right
RemoveAll(s, old) ==
    IF Len(s) < Len(old) THEN s
    ELSE IF SubSeq(s, 1, Len(old)) = old
         THEN RemoveAll(SubSeq(s, Len(old) + 1, Len(s)), old)
         ELSE <<s[1]>> \o RemoveAll(Tail(s), old)

DotCsv == <<".", "c", "s", "v">>

-----------------------------------------------------------------------------
(* Catalog entries (dicts) *)

\* key in report
Has(report, key) == key \in DOMAIN report

\* report.get(key, default)
Get(report, key, default) == IF Has(report, key) THEN report[key] ELSE default

-----------------------------------------------------------------------------
(* Date filter: gui.py load_reports *)

\* extract_date_from_filename(name)
extract_date_from_filename(name) ==
    IF EndsWith(name, DotCsv) /\ HasChar(name, "_")
    THEN RemoveAll(RSplitLast(name, "_"), DotCsv)
    ELSE <<>>

in_range_strict(start_date, end_date, date_str) ==
    /\ StrLeq(start_date, date_str) /\ start_date # date_str
    /\ StrLeq(date_str, end_date)

\* in_range(date_str), with the two dates of its closure
in_range(start_date, end_date, date_str) ==
    StrLeq(start_date, date_str) /\ StrLeq(date_str, end_date)

RECURSIVE filtered_reports(_, _, _)
\* [report for report in report_list if in_range(extract_date_from_filename(...))]
filtered_reports(report_list, start_date, end_date) ==
    IF report_list = <<>> THEN <<>>
    ELSE LET report == Head(report_list)
             rest == filtered_reports(Tail(report_list), start_date, end_date)
         IN IF in_range(start_date, end_date,
                        extract_date_from_filename(Get(report, "ReportName", <<>>)))
            THEN <<report>> \o rest
            ELSE rest

-----------------------------------------------------------------------------
(* Dedup index: MVC.py get_previously_downloaded_files *)
(* A directory is [files: names of its files, dirs: name -> directory].    *)

\* the names Path.iterdir() / Path.glob("*") yield for a directory
Children(dir) == dir.files \cup DOMAIN dir.dirs

\* for subfolder in base_dir.iterdir(): if subfolder.is_dir() and subfolder != today_folder:
\*     for file in subfolder.glob("*"): all_files.add(file.name)
get_previously_downloaded_files(base_dir, today_folder) ==
    UNION { Children(base_dir.dirs[subfolder]) :
              subfolder \in DOMAIN base_dir.dirs \ {today_folder} }

-----------------------------------------------------------------------------
(* Texts of the model *)

Str_2023_12_31 == <<"2", "0", "2", "3", "-", "1", "2", "-", "3", "1">>
Str_2024_01_01 == <<"2", "0", "2", "4", "-", "0", "1", "-", "0", "1">>
Str_2024_01_02 == <<"2", "0", "2", "4", "-", "0", "1", "-", "0", "2">>
Str_2024_01_03 == <<"2", "0", "2", "4", "-", "0", "1", "-", "0", "3">>

\* what QDate.toString("yyyy-MM-dd") gives for the dates the two date edits may hold
DateTexts == {Str_2023_12_31, Str_2024_01_01, Str_2024_01_02}

\* report names a catalog may carry
NameA == <<"a", "_">> \o Str_2024_01_01 \o DotCsv
NameB == <<"r", "_">> \o Str_2024_01_02 \o DotCsv
NameOld == <<"r", "_">> \o Str_2023_12_31 \o DotCsv
NameLate == <<"r", "_">> \o Str_2024_01_03 \o DotCsv
NameNoSep == <<"r">> \o Str_2024_01_01 \o DotCsv
NameTxt == <<"r", "_">> \o Str_2024_01_01 \o <<".", "t", "x", "t">>
NameTwoSep == <<"a", "_", "r", "_">> \o Str_2024_01_02 \o DotCsv
NameInnerCsv == <<"r", "_", "2", "0", "2", "4">> \o DotCsv \o <<"-", "0", "1", "-", "0", "1">> \o DotCsv
NameShortKey == <<"r", "_", "2", "0", "2", "4", "-", "0", "1">> \o DotCsv
NameNoKey == <<"_">> \o DotCsv

FilterNames ==
    {NameA, NameB, NameOld, NameLate, NameNoSep, NameTxt, NameTwoSep,
     NameInnerCsv, NameShortKey, NameNoKey, <<>>}

\* a catalog entry with both keys, and the two malformed shapes
Entry(name, url) == [ReportName |-> name, ReportBlobUri |-> url]
EntryNoUri(name) == [ReportName |-> name]
EntryNoName(url) == [ReportBlobUri |-> url]

-----------------------------------------------------------------------------
(* Credentials and the process environment *)

CredentialKeys == {"GATEWAY_USERNAME", "GATEWAY_PASSWORD", "HMAC_USER", "HMAC_KEY"}

\* os.getenv(key): None when unset, and None and '' are both false where it is read
Getenv(e, key) == IF key \in DOMAIN e THEN e[key] ELSE ""

\* QLineEdit.text().strip() on the texts the four fields hold in this model
Strip(text) ==
    CASE text = " " -> ""
      [] text = " u1 " -> "u1"
      [] OTHER -> text

NoEnv == [key \in {} |-> ""]
Credentials(username, password, hmac_user, hmac_key) ==
    [GATEWAY_USERNAME |-> username, GATEWAY_PASSWORD |-> password,
     HMAC_USER |-> hmac_user, HMAC_KEY |-> hmac_key]

\* base64.b64decode(HMAC_KEY) succeeds: "a2V5", "a2V6" are base64, "k" is not (its padding)
IsBase64(key) == key \in {"a2V5", "a2V6"}

-----------------------------------------------------------------------------
(* The gateway, as the client sees it *)

TOKEN_URL == "https://portalapi.lcegateway.com/Token"
REPORT_URL_BASE == "https://portalapi.lcegateway.com/GetReportBlobs"

Tokens == {"tok1", "tok2"}
\* what the token POST may come to: a rejection, another bad status, no
\* connection, a 200 whose JSON has no access_token, or a token
TokenResponses == {"401", "500", "unreachable", "no_access_token"} \cup Tokens

Nonces == {"n1"}
Timestamps == {"1700000000"}

\* what one blob GET and the write of its file may come to
Outcomes == {"ok", "bad_status", "unreachable", "write_error"}

\* get_token(): the error raised ("" when none), the requests made, the token
get_token_unchecked(e, response) ==
    IF Getenv(e, "GATEWAY_USERNAME") = "" \/ Getenv(e, "GATEWAY_PASSWORD") = ""
    THEN [error |-> "ValueError: gateway credentials must be set", net |-> <<>>, token |-> ""]
    ELSE [error |-> "",
          net |-> <<[kind |-> "token", url |-> TOKEN_URL,
                     username |-> Getenv(e, "GATEWAY_USERNAME"),
                     password |-> Getenv(e, "GATEWAY_PASSWORD"),
                     outcome |-> response]>>,
          token |-> IF response \in Tokens THEN response ELSE ""]

get_token(e, response) ==
    IF Getenv(e, "GATEWAY_USERNAME") = "" \/ Getenv(e, "GATEWAY_PASSWORD") = ""
    THEN [error |-> "ValueError: gateway credentials must be set", net |-> <<>>, token |-> ""]
    ELSE LET post == [kind |-> "token", url |-> TOKEN_URL,
                      username |-> Getenv(e, "GATEWAY_USERNAME"),
                      password |-> Getenv(e, "GATEWAY_PASSWORD"),
                      outcome |-> response]
         IN  CASE response = "401" ->
                    [error |-> "ValueError: Authentication failed", net |-> <<post>>, token |-> ""]
               [] response = "500" ->
                    [error |-> "HTTPError", net |-> <<post>>, token |-> ""]
               [] response = "unreachable" ->
                    [error |-> "ConnectionError", net |-> <<post>>, token |-> ""]
               [] response = "no_access_token" ->
                    [error |-> "KeyError: access_token", net |-> <<post>>, token |-> ""]
               [] OTHER ->
                    [error |-> "", net |-> <<post>>, token |-> response]

\* generate_hmac_header(http_method, request_url): the error raised, the header
generate_hmac_header(http_method, request_url, e, nonce, timestamp) ==
    LET HMAC_USER == Getenv(e, "HMAC_USER")
        HMAC_KEY == Getenv(e, "HMAC_KEY")
    IN  IF HMAC_USER = "" \/ HMAC_KEY = ""
        THEN [error |-> "ValueError: HMAC credentials must be set", header |-> <<>>]
        ELSE IF ~IsBase64(HMAC_KEY)
        THEN [error |-> "binascii.Error", header |-> <<>>]
        ELSE [error |-> "",
              header |-> [user |-> HMAC_USER,
                          signature |-> [key |-> HMAC_KEY,
                                         raw_string |-> <<HMAC_USER, http_method,
                                                          [quote_lower |-> request_url],
                                                          timestamp, nonce>>],
                          nonce |-> nonce, timestamp |-> timestamp]]

\* MVC.py: f"{REPORT_URL_BASE}?userName={username}&fileName={file_name}"
full_url(username) ==
    [base |-> REPORT_URL_BASE, userName |-> username, fileName |-> "all"]

\* gui.py: the same URL with its query built by urllib.parse.urlencode
full_url_encoded(username) ==
    [base |-> REPORT_URL_BASE, userName |-> [urlencode |-> username], fileName |-> "all"]

\* the catalog GET with its three headers, and the status it came to
CatalogRequest(url, token, hmac_header, status) ==
    [kind |-> "catalog", url |-> url, token |-> token, hmac |-> hmac_header,
     outcome |-> status]

json_loads_lenient(body) ==
    IF body.kind = "list"
    THEN [error |-> "", report_list |-> body.report_list]
    ELSE [error |-> "", report_list |-> <<>>]

\* json.loads(response.json()) and isinstance(report_list, list): the error, the list
json_loads_twice(body) ==
    CASE body.kind = "not_json" -> [error |-> "JSONDecodeError (outer)", report_list |-> <<>>]
      [] body.kind = "json_not_string" -> [error |-> "TypeError (inner)", report_list |-> <<>>]
      [] body.kind = "inner_not_json" -> [error |-> "JSONDecodeError (inner)", report_list |-> <<>>]
      [] body.kind = "inner_not_list" -> [error |-> "not a list", report_list |-> <<>>]
      [] OTHER -> [error |-> "", report_list |-> body.report_list]

-----------------------------------------------------------------------------
(* Catalogs the gateway may return *)

UrlA == "https://blob/a"
UrlB == "https://blob/b"
UrlC == "https://blob/c"

Catalogs ==
    { <<>>,
      <<Entry(NameA, UrlA), Entry(NameB, UrlB)>>,
      <<EntryNoName(UrlC), EntryNoUri(NameB), Entry(NameA, UrlA)>> }

\* the body of a 200 catalog response
CatalogBodies ==
    { [kind |-> k] : k \in {"not_json", "json_not_string", "inner_not_json", "inner_not_list"} }
    \cup { [kind |-> "list", report_list |-> c] : c \in Catalogs }

CatalogResponses ==
    { [status |-> "unreachable"], [status |-> "500"] }
    \cup { [status |-> "200", body |-> b] : b \in CatalogBodies }

\* the dates the two date edits hold when Connect is clicked
DateRanges == { <<Str_2024_01_01, Str_2024_01_02>>, <<Str_2024_01_02, Str_2024_01_02>> }

-----------------------------------------------------------------------------
(* The reports root on disk *)

MaxDay == 2
Days == 1..MaxDay

\* QFileDialog.getExistingDirectory returns '' when the dialog is cancelled
Cancelled == 0

\* BASE_DIR.parent as a directory: one folder per day, each holding report files
RootDir(f) ==
    [files |-> {}, dirs |-> [d \in DOMAIN f |-> [files |-> f[d], dirs |-> <<>>]]]

\* every name saved under the root, in whichever dated folder
OnDisk(f) == UNION { f[d] : d \in DOMAIN f }

-----------------------------------------------------------------------------
(* What an operation did: the record kept in last *)

Report(op) ==
    [op |-> op,             \* the entry point that ran
     supplied |-> NoEnv,    \* the credential values it started from
     net |-> <<>>,          \* the requests it issued, in order, each with its outcome
     dialog |-> "",         \* the message box shown, or the lines printed
     raised |-> "",         \* the exception that left the entry point, if any
     body |-> "",           \* the kind of catalog body received
     requested |-> <<>>,    \* the entries a batch ran over
     dest |-> Cancelled,    \* the folder it saved to
     index |-> {},          \* the Dedup Index it used
     errors |-> <<>>,       \* the failures it recorded: name and cause
     downloaded |-> 0,      \* the counters of its summary
     skipped |-> 0]

\* the blob requests of a log
Blobs(net) == SelectSeq(net, LAMBDA r : r.kind = "blob")

-----------------------------------------------------------------------------
(* Single transfer: gui.py _download_file, MVC.py download_reports lines 222-231 *)

\* requests.get(url, stream=True); raise_for_status(); open(filepath, "wb"); write
\* the chunks: the requests made, the exception raised, whether the file exists
download_file(url, name, outcome) ==
    IF url = ""
    THEN [net |-> <<>>, error |-> "MissingSchema", created |-> FALSE]
    ELSE LET get == <<[kind |-> "blob", url |-> url, name |-> name, outcome |-> outcome]>>
         IN  CASE outcome = "unreachable" ->
                    [net |-> get, error |-> "ConnectionError", created |-> FALSE]
               [] outcome = "bad_status" ->
                    [net |-> get, error |-> "HTTPError", created |-> FALSE]
               [] outcome = "write_error" ->
                    [net |-> get, error |-> "OSError", created |-> TRUE]
               [] OTHER ->
                    [net |-> get, error |-> "", created |-> TRUE]

-----------------------------------------------------------------------------
(* gui.py: LCReportDownloader *)

\* save_credentials(): the four keys deleted, then set from the stripped fields
save_credentials_setdefault(e, username, password, hmac_user, hmac_key) ==
    [key \in DOMAIN e \cup CredentialKeys |->
        IF key \in DOMAIN e
        THEN e[key]
        ELSE Credentials(username, password, hmac_user, hmac_key)[key]]

save_credentials(e, username, password, hmac_user, hmac_key) ==
    [key \in DOMAIN e \cup CredentialKeys |->
        IF key \in CredentialKeys
        THEN Credentials(username, password, hmac_user, hmac_key)[key]
        ELSE e[key]]

\* the rows load_reports fills: name, and the url its Download button is bound to
TableRows(reports) ==
    [i \in 1..Len(reports) |->
        [name |-> Get(reports[i], "ReportName", <<>>),
         url |-> Get(reports[i], "ReportBlobUri", "")]]

\* load_reports(): the window's state and the record of the run
load_reports(e, data, rows, enabled, username_text, password_text, hmac_user_text, hmac_key_text, range, token_response, nonce, timestamp, catalog_response) ==
    LET username == Strip(username_text)
        password == Strip(password_text)
        hmac_user == Strip(hmac_user_text)
        hmac_key == Strip(hmac_key_text)
        rep == [Report("load_reports") EXCEPT
                   !.supplied = Credentials(username, password, hmac_user, hmac_key)]
        e1 == save_credentials(e, username, password, hmac_user, hmac_key)
        tok == get_token(e1, token_response)
        url == full_url_encoded(username)
        hdr == generate_hmac_header("GET", url, e1, nonce, timestamp)
        net == tok.net \o <<CatalogRequest(url, tok.token, hdr.header, catalog_response.status)>>
        Failed(rows1, log, dialog, body) ==
            [env |-> e1, reports_data |-> <<>>, table |-> rows1, button |-> FALSE,
             last |-> [rep EXCEPT !.net = log, !.dialog = dialog, !.body = body]]
    IN  IF username = "" \/ password = "" \/ hmac_user = "" \/ hmac_key = ""
        THEN [env |-> e, reports_data |-> data, table |-> rows, button |-> enabled,
              last |-> [rep EXCEPT !.dialog = "warning: Missing Credentials"]]
        ELSE IF tok.error # ""
        THEN Failed(rows, tok.net, "critical: Authentication Error", "")
        ELSE IF hdr.error # ""
        THEN Failed(<<>>, tok.net, "critical: HMAC Error", "")
        ELSE IF catalog_response.status = "unreachable"
        THEN Failed(<<>>, net, "critical: Network Error", "")
        ELSE IF catalog_response.status # "200"
        THEN Failed(<<>>, net, "critical: API Error", "")
        ELSE LET parsed == json_loads_twice(catalog_response.body)
                 filtered == filtered_reports(parsed.report_list, range[1], range[2])
             IN  IF parsed.error # ""
                 THEN Failed(<<>>, net, "critical: Error: Failed to load reports",
                             catalog_response.body.kind)
                 ELSE [env |-> e1, reports_data |-> filtered,
                       table |-> TableRows(filtered), button |-> filtered # <<>>,
                       last |-> [rep EXCEPT !.net = net, !.body = catalog_response.body.kind,
                                            !.requested = parsed.report_list]]

\* download_report(url, name): the files of the chosen folder, the record of the run
download_report(f, url, name, save_dir, outcome) ==
    LET rep == [Report("download_report") EXCEPT
                   !.requested = <<Entry(name, url)>>, !.dest = save_dir]
        got == download_file(url, name, outcome)
    IN  IF save_dir = Cancelled
        THEN [fs |-> f, last |-> rep]
        ELSE [fs |-> IF got.created THEN [f EXCEPT ![save_dir] = @ \cup {name}] ELSE f,
              last |-> [rep EXCEPT
                          !.net = got.net,
                          !.errors = IF got.error # ""
                                     THEN <<[name |-> name, cause |-> got.error]>>
                                     ELSE <<>>,
                          !.dialog = IF got.error # ""
                                     THEN "critical: Failed to download report"
                                     ELSE "information: Success"]]


RECURSIVE gui_loop_abort(_, _, _, _)
gui_loop_abort(reports, outcomes, index, acc) ==
    IF index > Len(reports) THEN acc
    ELSE LET name == Get(reports[index], "ReportName", <<>>)
             url == Get(reports[index], "ReportBlobUri", "")
             got == download_file(url, name, outcomes[Len(acc.net) + 1])
         IN  IF name = <<>> \/ url = ""
             THEN gui_loop_abort(reports, outcomes, index + 1, acc)
             ELSE IF got.error # ""
             THEN [net |-> acc.net \o got.net,
                   created |-> acc.created \cup (IF got.created THEN {name} ELSE {}),
                   errors |-> Append(acc.errors, [name |-> name, cause |-> got.error])]
             ELSE gui_loop_abort(reports, outcomes, index + 1,
                    [net |-> acc.net \o got.net,
                     created |-> acc.created \cup {name},
                     errors |-> acc.errors])

RECURSIVE gui_loop(_, _, _, _)
\* for index, report in enumerate(self.reports_data): ... of download_all_reports
gui_loop(reports, outcomes, index, acc) ==
    IF index > Len(reports) THEN acc
    ELSE LET name == Get(reports[index], "ReportName", <<>>)
             url == Get(reports[index], "ReportBlobUri", "")
             got == download_file(url, name, outcomes[Len(acc.net) + 1])
         IN  IF name = <<>> \/ url = ""
             THEN gui_loop(reports, outcomes, index + 1, acc)
             ELSE gui_loop(reports, outcomes, index + 1,
                    [net |-> acc.net \o got.net,
                     created |-> acc.created \cup (IF got.created THEN {name} ELSE {}),
                     errors |-> IF got.error # ""
                                THEN Append(acc.errors, [name |-> name, cause |-> got.error])
                                ELSE acc.errors])

\* download_all_reports(): the files of the chosen folder, the record of the run
download_all_reports(f, data, save_dir, outcomes) ==
    LET rep == [Report("download_all_reports") EXCEPT
                   !.requested = data, !.dest = save_dir]
        ran == gui_loop(data, outcomes, 1, [net |-> <<>>, created |-> {}, errors |-> <<>>])
    IN  IF data = <<>>
        THEN [fs |-> f, last |-> [rep EXCEPT !.dialog = "information: No Reports"]]
        ELSE IF save_dir = Cancelled
        THEN [fs |-> f, last |-> rep]
        ELSE [fs |-> [f EXCEPT ![save_dir] = @ \cup ran.created],
              last |-> [rep EXCEPT
                          !.net = ran.net,
                          !.errors = ran.errors,
                          !.dialog = IF ran.errors # <<>>
                                     THEN "warning: Download Complete (with issues)"
                                     ELSE "information: All reports were downloaded successfully"]]

-----------------------------------------------------------------------------
(* MVC.py: the command line *)

\* main(): get_token(), then download_reports(token, GATEWAY_USERNAME), where
\* GATEWAY_USERNAME is no global of the module: evaluating it raises NameError
main(e, token_response) ==
    LET tok == get_token(e, token_response)
        rep == [Report("main") EXCEPT !.supplied = e, !.net = tok.net]
    IN  IF tok.error # ""
        THEN [rep EXCEPT !.raised = tok.error]
        ELSE [rep EXCEPT !.raised = "NameError: GATEWAY_USERNAME"]

\* r = requests.get(url); r.raise_for_status(); open(filepath, "wb").write(r.content)
fetch_and_save(url, name, outcome) ==
    LET get == <<[kind |-> "blob", url |-> url, name |-> name, outcome |-> outcome]>>
    IN  CASE outcome = "unreachable" ->
               [net |-> get, error |-> "ConnectionError", created |-> FALSE]
          [] outcome = "bad_status" ->
               [net |-> get, error |-> "HTTPError", created |-> FALSE]
          [] outcome = "write_error" ->
               [net |-> get, error |-> "OSError", created |-> TRUE]
          [] OTHER ->
               [net |-> get, error |-> "", created |-> TRUE]

RECURSIVE cli_loop(_, _, _, _, _)
\* for report in report_list: ... of download_reports
cli_loop(report_list, outcomes, index, previously_downloaded, acc) ==
    IF index > Len(report_list) THEN acc
    ELSE LET name == Get(report_list[index], "ReportName", <<>>)
             url == Get(report_list[index], "ReportBlobUri", "")
             got == fetch_and_save(url, name, outcomes[Len(acc.net) + 1])
         IN  IF name = <<>> \/ url = ""
             THEN cli_loop(report_list, outcomes, index + 1, previously_downloaded, acc)
             ELSE IF name \in previously_downloaded
             THEN cli_loop(report_list, outcomes, index + 1, previously_downloaded,
                           [acc EXCEPT !.skipped = @ + 1])
             ELSE cli_loop(report_list, outcomes, index + 1, previously_downloaded,
                    [net |-> acc.net \o got.net,
                     created |-> acc.created \cup (IF got.created THEN {name} ELSE {}),
                     errors |-> IF got.error # ""
                                THEN Append(acc.errors, [name |-> name, cause |-> got.error])
                                ELSE acc.errors,
                     downloaded |-> IF got.error = "" THEN acc.downloaded + 1
                                    ELSE acc.downloaded,
                     skipped |-> acc.skipped])

\* download_reports(token, username), started on day BASE_DIR: the files, the record
download_reports(f, BASE_DIR, e, token, username, nonce, timestamp, catalog_response, outcomes) ==
    LET url == full_url(username)
        hdr == generate_hmac_header("GET", url, e, nonce, timestamp)
        rep == [Report("download_reports") EXCEPT
                   !.supplied = e, !.dest = BASE_DIR]
        net == <<CatalogRequest(url, token, hdr.header, catalog_response.status)>>
        parsed == json_loads_twice(catalog_response.body)
        previously_downloaded == get_previously_downloaded_files(RootDir(f), BASE_DIR)
        ran == cli_loop(parsed.report_list, outcomes, 1, previously_downloaded,
                        [net |-> <<>>, created |-> {}, errors |-> <<>>,
                         downloaded |-> 0, skipped |-> 0])
    IN  IF hdr.error # ""
        THEN [fs |-> f, last |-> [rep EXCEPT !.raised = hdr.error]]
        ELSE IF catalog_response.status = "unreachable"
        THEN [fs |-> f, last |-> [rep EXCEPT !.net = net, !.raised = "ConnectionError"]]
        ELSE IF catalog_response.status # "200"
        THEN [fs |-> f, last |-> [rep EXCEPT !.net = net, !.raised = "HTTPError"]]
        ELSE IF parsed.error # ""
        THEN [fs |-> f,
              last |-> [rep EXCEPT
                          !.net = net, !.body = catalog_response.body.kind,
                          !.dialog = IF parsed.error = "not a list"
                                     THEN "print: Expected a list but got"
                                     ELSE "print: Failed to double-parse JSON"]]
        ELSE [fs |-> [f EXCEPT ![BASE_DIR] = @ \cup ran.created],
              last |-> [rep EXCEPT
                          !.net = net \o ran.net, !.body = catalog_response.body.kind,
                          !.requested = parsed.report_list,
                          !.index = previously_downloaded,
                          !.errors = ran.errors,
                          !.downloaded = ran.downloaded, !.skipped = ran.skipped,
                          !.dialog = "print: Done: downloaded, skipped"]]

-----------------------------------------------------------------------------
(* The state machine: the window's handlers and the command line *)

\* the environment a process may be started in
StartEnvs ==
    { Credentials("u1", "pw", "h1", "a2V5"),
      [GATEWAY_USERNAME |-> "u1", GATEWAY_PASSWORD |-> "pw"],
      [HMAC_USER |-> "h1", HMAC_KEY |-> "a2V5"] }

\* the texts of the four fields when Connect is clicked: complete, or one blank
CompleteTexts == { <<"u1", "pw", "h1", "a2V5">>, <<" u1 ", "pw", "h1", "k">> }
IncompleteTexts ==
    { <<"", "pw", "h1", "a2V5">>, <<"u1", " ", "h1", "a2V5">>,
      <<"u1", "pw", "", "a2V5">>, <<"u1", "pw", "h1", "">> }

NoCatalog == [status |-> "unreachable"]

\* one click on Connect: the texts, the dates, and what the gateway answers.  An
\* answer is drawn only for a request the handler can come to make.
LoadScenarios ==
    { [texts |-> t, range |-> r, token |-> "unreachable", catalog |-> NoCatalog] :
        t \in IncompleteTexts, r \in {<<Str_2024_01_01, Str_2024_01_02>>} }
    \cup { [texts |-> t, range |-> r, token |-> a, catalog |-> NoCatalog] :
        t \in CompleteTexts, r \in {<<Str_2024_01_01, Str_2024_01_02>>},
        a \in TokenResponses \ Tokens }
    \cup { [texts |-> t, range |-> r, token |-> a, catalog |-> c] :
        t \in CompleteTexts, r \in DateRanges, a \in Tokens, c \in CatalogResponses }

\* the clicks on Connect that load a list
ListScenarios ==
    { s \in LoadScenarios : /\ s.texts = <<"u1", "pw", "h1", "a2V5">>
                            /\ s.token = "tok1"
                            /\ s.catalog.status = "200"
                            /\ s.catalog.body.kind = "list" }

\* the entries of a list that carry both a name and a URL
Downloadable(report_list) ==
    SelectSeq(report_list, LAMBDA r : /\ Get(r, "ReportName", <<>>) # <<>>
                                      /\ Get(r, "ReportBlobUri", "") # "")

\* the list a catalog response carries
ListOf(catalog_response) ==
    IF catalog_response.status = "200" /\ catalog_response.body.kind = "list"
    THEN catalog_response.body.report_list
    ELSE <<>>

\* the window as constructed, on an empty reports root, before any run
Constructed ==
    /\ env = NoEnv
    /\ reports_data = <<>>
    /\ table = <<>>
    /\ button = FALSE
    /\ fs = [d \in Days |-> {}]
    /\ last = Report("none")

Init ==
    /\ Constructed
    /\ arg = <<>>
    /\ res = [done |-> FALSE]

\* "Connect & Load Reports" is clicked
LoadReports(scenarios) ==
    \E scenario \in scenarios, nonce \in Nonces, timestamp \in Timestamps :
        LET r == load_reports(env, reports_data, table, button,
                              scenario.texts[1], scenario.texts[2],
                              scenario.texts[3], scenario.texts[4], scenario.range,
                              scenario.token, nonce, timestamp, scenario.catalog)
        IN  /\ env' = r.env
            /\ reports_data' = r.reports_data
            /\ table' = r.table
            /\ button' = r.button
            /\ last' = r.last
            /\ UNCHANGED <<fs, arg, res>>

\* the Download button of a table row is clicked
DownloadReport ==
    \E row \in 1..Len(table), save_dir \in Days \cup {Cancelled}, outcome \in Outcomes :
        LET r == download_report(fs, table[row].url, table[row].name, save_dir, outcome)
        IN  /\ fs' = r.fs
            /\ last' = r.last
            /\ UNCHANGED <<env, reports_data, table, button, arg, res>>

\* "Download All" is clicked (the button must be enabled)
DownloadAllReports ==
    /\ button
    /\ \E save_dir \in Days \cup {Cancelled},
          outcomes \in [1..Len(Downloadable(reports_data)) -> Outcomes] :
        LET r == download_all_reports(fs, reports_data, save_dir, outcomes)
        IN  /\ fs' = r.fs
            /\ last' = r.last
            /\ UNCHANGED <<env, reports_data, table, button, arg, res>>

\* python MVC.py is run, in some environment
CliMain ==
    \E e \in StartEnvs, token_response \in TokenResponses :
        /\ last' = main(e, token_response)
        /\ UNCHANGED <<env, reports_data, table, button, fs, arg, res>>

\* download_reports(token, username) is called in a process started on some day
\* (BASE_DIR is that day's folder) and in some environment
CliDownloadReports(envs, days, responses, results) ==
    \E e \in envs, BASE_DIR \in days, token \in {"tok1"}, username \in {"u1"},
       nonce \in Nonces, timestamp \in Timestamps, catalog_response \in responses :
        \E outcomes \in [1..Len(Downloadable(ListOf(catalog_response))) -> results] :
            LET r == download_reports(fs, BASE_DIR, e, token, username, nonce,
                                      timestamp, catalog_response, outcomes)
            IN  /\ fs' = r.fs
                /\ last' = r.last
                /\ UNCHANGED <<env, reports_data, table, button, arg, res>>

\* Sessions: every way a load and a command-line run can go; the command line
\* runs on the first day and each of its transfers succeeds
Next ==
    \/ LoadReports(LoadScenarios)
    \/ CliMain
    \/ CliDownloadReports(StartEnvs, {1}, CatalogResponses, {"ok"})

Spec == Init /\ [][Next]_vars

\* Transfers: lists are loaded, and every transfer can go every way
NextTransfer ==
    \/ LoadReports(ListScenarios)
    \/ DownloadReport
    \/ DownloadAllReports
    \/ CliDownloadReports({Credentials("u1", "pw", "h1", "a2V5")}, Days,
                          {r \in CatalogResponses : ListOf(r) # <<>>}, Outcomes)

SpecTransfer == Init /\ [][NextTransfer]_vars

-----------------------------------------------------------------------------
(* The date filter on its own: every catalog of up to MaxCatalog entries *)

MaxCatalog == 2

FilterEntries == { Entry(n, UrlA) : n \in FilterNames } \cup { EntryNoName(UrlA) }

FilterCatalogs == UNION { [1..n -> FilterEntries] : n \in 0..MaxCatalog }

InitFilter ==
    /\ Constructed
    /\ arg \in { [report_list |-> c, start_date |-> a, end_date |-> b] :
                   c \in FilterCatalogs, a \in DateTexts, b \in DateTexts }
    /\ res = [done |-> FALSE]

\* the filter of load_reports runs on the parsed list with the dates of the two edits
ApplyFilter ==
    /\ ~res.done
    /\ res' = [done |-> TRUE,
               value |-> filtered_reports(arg.report_list, arg.start_date, arg.end_date)]
    /\ UNCHANGED <<env, reports_data, table, button, fs, last, arg>>

NextFilter == ApplyFilter

SpecFilter == InitFilter /\ [][NextFilter]_vars

-----------------------------------------------------------------------------
(* The Dedup Index on its own: every reports root of two folders, two names *)

FolderNames == {"2024-01-01", "2024-01-02"}
LeafNames == {"X.csv", "Y.csv"}

\* a folder two levels down: it holds files only
LeafDirs == { [files |-> fl, dirs |-> <<>>] : fl \in SUBSET {"X.csv"} }

\* a folder one level down: each leaf name is absent, a file, or a folder
SubDirs ==
    { [files |-> fl, dirs |-> ds] :
        fl \in SUBSET LeafNames,
        ds \in UNION { [dn -> LeafDirs] : dn \in SUBSET LeafNames } }

Roots ==
    { [files |-> fl, dirs |-> ds] :
        fl \in SUBSET LeafNames, ds \in [FolderNames -> SubDirs] }

InitDedup ==
    /\ Constructed
    /\ arg \in { [base_dir |-> r, today_folder |-> d] :
                   r \in { t \in Roots : \A d \in FolderNames :
                             t.dirs[d].files \cap DOMAIN t.dirs[d].dirs = {} },
                   d \in FolderNames }
    /\ res = [done |-> FALSE]

\* previously_downloaded = get_previously_downloaded_files(BASE_DIR.parent, BASE_DIR)
ApplyDedup ==
    /\ ~res.done
    /\ res' = [done |-> TRUE,
               value |-> get_previously_downloaded_files(arg.base_dir, arg.today_folder)]
    /\ UNCHANGED <<env, reports_data, table, button, fs, last, arg>>

NextDedup == ApplyDedup

SpecDedup == InitDedup /\ [][NextDedup]_vars

-----------------------------------------------------------------------------
(* C5: the Dedup Index *)

\* C5: buildPreviouslyDownloaded(rootDir, excludeDir) is exactly the set of leaf
\* names of the files that are direct children of an immediate subdirectory of
\* rootDir other than excludeDir: a name is in the set iff such a file exists.
C5_DedupIsSiblingFileNames ==
    res.done =>
        res.value = { n \in LeafNames :
                        \E d \in DOMAIN arg.base_dir.dirs \ {arg.today_folder} :
                            n \in arg.base_dir.dirs[d].files }

-----------------------------------------------------------------------------
(* C6: the date filter *)

\* the DateKey of a name: the text after its last "_", with ".csv" removed
C6_DateKey(name) == RemoveAll(RSplitLast(name, "_"), DotCsv)

\* the entries the claim retains
C6_Retained(report) ==
    /\ Has(report, "ReportName")
    /\ EndsWith(report.ReportName, DotCsv)
    /\ HasChar(report.ReportName, "_")
    /\ StrLeq(arg.start_date, C6_DateKey(report.ReportName))
    /\ StrLeq(C6_DateKey(report.ReportName), arg.end_date)

\* C6: filterByDateRange(catalog, startDate, endDate) is exactly the catalog
\* entries, in catalog order, whose name ends in ".csv", contains "_" and whose
\* DateKey lies between the two dates, both inclusive; every other entry is
\* dropped, and an empty result is a result.
C6_FilterByDateRange ==
    res.done => res.value = SelectSeq(arg.report_list, C6_Retained)

\* a two-entry catalog whose first entry is dated one day before the start and
\* is dropped, and whose second is dated on the start, which is also the end,
\* and is kept
C6_Witness ==
    /\ res.done
    /\ arg.start_date = Str_2024_01_01
    /\ arg.end_date = Str_2024_01_01
    /\ arg.report_list = <<Entry(NameOld, UrlA), Entry(NameA, UrlA)>>
    /\ res.value = <<Entry(NameA, UrlA)>>

-----------------------------------------------------------------------------
(* C1, C2: deduplication against earlier runs *)

\* the runs that transfer files, once a destination is chosen
IsTransfer(run) ==
    /\ run.op \in {"download_reports", "download_report", "download_all_reports"}
    /\ run.dest # Cancelled

\* C1: once a report name has been saved under the reports root by a prior run,
\* no later run issues a blob GET for an entry with that name, whatever dated
\* folder the prior run saved to (the folder of the current run included) and
\* whichever entry point is used.
C1_NeverRefetchSaved ==
    [][\A i \in 1..Len(Blobs(last'.net)) : Blobs(last'.net)[i].name \notin OnDisk(fs)]_vars

\* C2: in every download path an entry whose name is in the Dedup Index (the
\* names in the dated folders other than the destination) is excluded before any
\* blob GET is issued for it, and is counted as skipped.
C2_IndexedNamesSkipped ==
    [][IsTransfer(last') =>
        LET index == get_previously_downloaded_files(RootDir(fs), last'.dest)
            indexed == SelectSeq(Downloadable(last'.requested),
                                 LAMBDA r : r.ReportName \in index)
        IN  /\ \A i \in 1..Len(Blobs(last'.net)) : Blobs(last'.net)[i].name \notin index
            /\ last'.skipped = Len(indexed)]_vars

-----------------------------------------------------------------------------
(* C3, C4: batches *)

\* the batch runs that reached their loop
IsBatch(run) ==
    /\ run.op \in {"download_reports", "download_all_reports"}
    /\ run.dest # Cancelled
    /\ run.op = "download_reports" => run.body = "list"

\* the entries a batch has to transfer: well-formed and not in its Dedup Index
C3_Eligible(run) ==
    SelectSeq(Downloadable(run.requested), LAMBDA r : r.ReportName \notin run.index)

\* C3: in a batch of n entries a failure while downloading entry k does not
\* abort the batch: the batch raises nothing, every eligible entry, those after
\* k included, is attempted in catalog order, each failure is recorded with the
\* entry's name and its cause, and each entry that succeeded is on disk.
C3_BatchToleratesFailures ==
    IsBatch(last) =>
        LET gets == Blobs(last.net)
            todo == C3_Eligible(last)
            failed == SelectSeq(gets, LAMBDA g : g.outcome # "ok")
        IN  /\ last.raised = ""
            /\ Len(gets) = Len(todo)
            /\ \A i \in 1..Len(gets) :
                  /\ gets[i].name = todo[i].ReportName
                  /\ gets[i].url = todo[i].ReportBlobUri
                  /\ gets[i].outcome = "ok" => gets[i].name \in fs[last.dest]
            /\ Len(last.errors) = Len(failed)
            /\ \A i \in 1..Len(failed) :
                  /\ last.errors[i].name = failed[i].name
                  /\ last.errors[i].cause =
                        (CASE failed[i].outcome = "unreachable" -> "ConnectionError"
                           [] failed[i].outcome = "bad_status" -> "HTTPError"
                           [] OTHER -> "OSError")

C3_Witness ==
    /\ last.op = "download_all_reports"
    /\ last.requested = <<Entry(NameA, UrlA), Entry(NameB, UrlB)>>
    /\ Len(Blobs(last.net)) = 2
    /\ Blobs(last.net)[1].outcome = "bad_status"
    /\ Blobs(last.net)[2].outcome = "ok"
    /\ last.errors = <<[name |-> NameA, cause |-> "HTTPError"]>>
    /\ NameB \in fs[last.dest]
    /\ NameA \notin fs[last.dest]

\* C4: a batch over n requested entries yields exactly one outcome per entry,
\* succeeded or failed, and the summary that all were downloaded is shown only
\* if every one of them was.
C4_OneOutcomePerEntry ==
    IsBatch(last) /\ last.requested # <<>> =>
        LET succeeded == SelectSeq(Blobs(last.net), LAMBDA g : g.outcome = "ok")
        IN  /\ Len(succeeded) + Len(last.errors) = Len(last.requested)
            /\ last.dialog = "information: All reports were downloaded successfully"
                  => Len(succeeded) = Len(last.requested)

-----------------------------------------------------------------------------
(* C7..C10: a session of the window or of the command line *)

\* C7: for a valid catalog response an entry without a name or without a source
\* URI does not abort the fetch and is omitted from the catalog returned: what
\* is kept and offered for download is well-formed, and no more than the
\* well-formed entries of the response.
C7_MalformedOmitted ==
    last.op = "load_reports" /\ last.body = "list" =>
        /\ last.dialog = ""
        /\ Len(reports_data) <= Len(Downloadable(last.requested))
        /\ \A i \in 1..Len(reports_data) :
              /\ Get(reports_data[i], "ReportName", <<>>) # <<>>
              /\ Get(reports_data[i], "ReportBlobUri", "") # ""
        /\ \A i \in 1..Len(table) : table[i].name # <<>> /\ table[i].url # ""

\* the ways a run reports a catalog body it could not use
C8_Reported ==
    {"critical: Error: Failed to load reports",
     "print: Failed to double-parse JSON",
     "print: Expected a list but got"}

\* C8: a catalog body that fails either parse step, or whose final value is not
\* a list, ends the fetch in a reported error and the session aborts: nothing is
\* filtered, listed or downloaded from it.
C8_BadBodyAborts ==
    last.body \in {"not_json", "json_not_string", "inner_not_json", "inner_not_list"} =>
        /\ last.dialog \in C8_Reported
        /\ last.requested = <<>>
        /\ Blobs(last.net) = <<>>
        /\ last.downloaded = 0
        /\ last.op = "load_reports" => reports_data = <<>> /\ table = <<>> /\ ~button

C8_Witness ==
    /\ last.op = "load_reports"
    /\ last.body = "inner_not_list"
    /\ last.dialog = "critical: Error: Failed to load reports"
    /\ Len(last.net) = 2
    /\ reports_data = <<>>
    /\ table = <<>>

\* C9: when any of the four credential values is missing, the run surfaces a
\* configuration error and stops before any network call, in the window and on
\* the command line alike.
C9_NoCallWithoutCredentials ==
    /\ last.op \in {"load_reports", "main", "download_reports"}
    /\ \E key \in CredentialKeys : Getenv(last.supplied, key) = ""
    => /\ last.net = <<>>
       /\ \/ last.dialog = "warning: Missing Credentials"
          \/ last.raised \in {"ValueError: gateway credentials must be set",
                              "ValueError: HMAC credentials must be set"}

\* the runs that acquire their own token
C10_Session(run) == run.op \in {"load_reports", "main"}

\* the run could not get a token
C10_TokenFailed(run) ==
    \/ \E i \in 1..Len(run.net) : run.net[i].kind = "token" /\ run.net[i].outcome \notin Tokens
    \/ run.raised = "ValueError: gateway credentials must be set"

-----------------------------------------------------------------------------
(* C11: loads with differing credentials *)

\* the texts of the four fields over several loads: two accounts, a padded
\* username, a key that is not base64
CredentialTexts == CompleteTexts \cup { <<"u2", "pw2", "h2", "a2V6">> }

\* the clicks on Connect of such loads, with every answer of the gateway
CredentialScenarios ==
    { [texts |-> t, range |-> r, token |-> "unreachable", catalog |-> NoCatalog] :
        t \in IncompleteTexts, r \in {<<Str_2024_01_01, Str_2024_01_02>>} }
    \cup { [texts |-> t, range |-> r, token |-> a, catalog |-> NoCatalog] :
        t \in CredentialTexts, r \in {<<Str_2024_01_01, Str_2024_01_02>>},
        a \in TokenResponses \ Tokens }
    \cup { [texts |-> t, range |-> r, token |-> a, catalog |-> c] :
        t \in CredentialTexts, r \in {<<Str_2024_01_01, Str_2024_01_02>>},
        a \in {"tok1"}, c \in CatalogResponses }

NextCredentials == LoadReports(CredentialScenarios)

SpecCredentials == Init /\ [][NextCredentials]_vars

\* C11: every token request and every HMAC signature of a load uses exactly the
\* four credential values supplied for that load, none stored by an earlier
\* load, and a load rejected for incomplete input issues no request.
C11_CredentialsOfThisLoad ==
    last.op = "load_reports" =>
        /\ \A i \in 1..Len(last.net) :
              /\ last.net[i].kind = "token" =>
                    /\ last.net[i].username = last.supplied.GATEWAY_USERNAME
                    /\ last.net[i].password = last.supplied.GATEWAY_PASSWORD
              /\ last.net[i].kind = "catalog" =>
                    /\ last.net[i].hmac.user = last.supplied.HMAC_USER
                    /\ last.net[i].hmac.signature.key = last.supplied.HMAC_KEY
                    /\ last.net[i].hmac.signature.raw_string[1] = last.supplied.HMAC_USER
                    /\ last.net[i].url.userName.urlencode = last.supplied.GATEWAY_USERNAME
        /\ (\E key \in CredentialKeys : last.supplied[key] = "") => last.net = <<>>

\* a load with the second account that reached the catalog request, in a
\* window whose table still shows the rows an earlier load obtained
C11_Witness ==
    /\ last.op = "load_reports"
    /\ last.supplied = Credentials("u2", "pw2", "h2", "a2V6")
    /\ Len(last.net) = 2
    /\ last.net[1].username = "u2"
    /\ last.net[2].hmac.user = "h2"
    /\ env = Credentials("u2", "pw2", "h2", "a2V6")

-----------------------------------------------------------------------------
(* The signer on text: MVC.py generate_hmac_header, lines 102-126.  The       *)
(* sessions above keep a header as a record of what went into it; here the   *)
(* signed string and the header are computed character by character.         *)

UpperCase ==
    <<"A", "B", "C", "D", "E", "F", "G", "H", "I", "J", "K", "L", "M",
      "N", "O", "P", "Q", "R", "S", "T", "U", "V", "W", "X", "Y", "Z">>
LowerCase ==
    <<"a", "b", "c", "d", "e", "f", "g", "h", "i", "j", "k", "l", "m",
      "n", "o", "p", "q", "r", "s", "t", "u", "v", "w", "x", "y", "z">>

\* str.lower() on one character
LowerChar(c) ==
    IF \E i \in 1..Len(UpperCase) : UpperCase[i] = c
    THEN LowerCase[CHOOSE i \in 1..Len(UpperCase) : UpperCase[i] = c]
    ELSE c

\* str.lower()
lower(text) == [i \in 1..Len(text) |-> LowerChar(text[i])]

\* urllib.parse.quote(c, safe="") on one character: letters, digits and _.-~
\* are kept, every other character becomes % and its two upper-case hex digits
QuoteChar(c) ==
    CASE c = ":" -> <<"%", "3", "A">>
      [] c = "/" -> <<"%", "2", "F">>
      [] c = "?" -> <<"%", "3", "F">>
      [] c = "=" -> <<"%", "3", "D">>
      [] c = "&" -> <<"%", "2", "6">>
      [] c = "%" -> <<"%", "2", "5">>
      [] c = " " -> <<"%", "2", "0">>
      [] OTHER -> <<c>>

RECURSIVE quote(_)
\* urllib.parse.quote(request_url, safe="")
quote(text) ==
    IF text = <<>> THEN <<>> ELSE QuoteChar(Head(text)) \o quote(Tail(text))

\* encoded_url = urllib.parse.quote(request_url, safe="").lower()
encoded_url(request_url) == lower(quote(request_url))

raw_string_no_method(HMAC_USER, http_method, request_url, timestamp, nonce) ==
    HMAC_USER \o encoded_url(request_url) \o timestamp \o nonce

\* raw_string = HMAC_USER + http_method + encoded_url + timestamp + nonce
raw_string(HMAC_USER, http_method, request_url, timestamp, nonce) ==
    HMAC_USER \o http_method \o encoded_url(request_url) \o timestamp \o nonce

\* base64 of HMAC-SHA256 of the signed string under the decoded key: one symbol
\* per key and message (distinct messages are taken to give distinct digests)
signature(HMAC_KEY, message) == [hmac_sha256 |-> <<HMAC_KEY, message>>]

\* hmac_header = f"amx {HMAC_USER}:{signature}:{nonce}:{timestamp}"
hmac_header(HMAC_USER, HMAC_KEY, http_method, request_url, nonce, timestamp) ==
    <<"a", "m", "x", " ">> \o HMAC_USER \o <<":">>
        \o <<signature(HMAC_KEY,
                       raw_string(HMAC_USER, http_method, request_url, timestamp, nonce))>>
        \o <<":">> \o nonce \o <<":">> \o timestamp


\* the inputs of the signer in this model
SignMethods == { <<"G", "E", "T">>, <<"g", "e", "t">>, <<"P", "U", "T">> }
SignUrls ==
    { <<"h", ":", "/", "/", "g", "/", "R", "?", "u", "=", "A">>,
      <<"h", ":", "/", "/", "g", "/", "R", "?", "u", "=", "a">>,
      <<"h", ":", "/", "/", "g", "/", "r", "?", "u", "=", "a">>,
      <<"h", ":", "/", "/", "g", "/", "r", "?", "u", "=", "b">>,
      <<"h", ":", "/", "/", "g", "/", "r", "?", "u", "=", "%", "3", "D">> }
SignTimestamps == { <<"1", "7">>, <<"1", "8">> }
SignNonces == { <<"e", "1">>, <<"e", "2">> }
SignUser == <<"h", "1">>
SignKey == "a2V5"

\* the signature a header carries: what stands between its first two colons
SignatureOf(header) == header[Len(<<"a", "m", "x", " ">>) + Len(SignUser) + 2]

SignInputs ==
    [http_method : SignMethods, request_url : SignUrls,
     timestamp : SignTimestamps, nonce : SignNonces]

\* two invocations of the signer, each with the nonce and timestamp it drew
InitSigner ==
    /\ Constructed
    /\ arg \in [first : SignInputs, second : SignInputs]
    /\ res = [done |-> FALSE]

ApplySigner ==
    /\ ~res.done
    /\ res' = [done |-> TRUE,
               first |-> hmac_header(SignUser, SignKey, arg.first.http_method,
                                     arg.first.request_url, arg.first.nonce,
                                     arg.first.timestamp),
               second |-> hmac_header(SignUser, SignKey, arg.second.http_method,
                                      arg.second.request_url, arg.second.nonce,
                                      arg.second.timestamp)]
    /\ UNCHANGED <<env, reports_data, table, button, fs, last, arg>>

NextSigner == ApplySigner

SpecSigner == InitSigner /\ [][NextSigner]_vars

-----------------------------------------------------------------------------
(* C12: signer determinism *)

\* the two invocations differ in exactly one of method, URL and timestamp
C12_VaryOne(a, b) ==
    /\ a.nonce = b.nonce
    /\ \/ a.http_method # b.http_method /\ a.request_url = b.request_url
                                        /\ a.timestamp = b.timestamp
       \/ a.http_method = b.http_method /\ a.request_url # b.request_url
                                        /\ a.timestamp = b.timestamp
       \/ a.http_method = b.http_method /\ a.request_url = b.request_url
                                        /\ a.timestamp # b.timestamp

\* the header is amx user:signature:nonce:timestamp, the signature being over
\* user + method + lowercased percent-encoded URL + timestamp + nonce
C12_Format(in, header) ==
    /\ header = <<"a", "m", "x", " ">> \o SignUser \o <<":">> \o <<SignatureOf(header)>>
                    \o <<":">> \o in.nonce \o <<":">> \o in.timestamp
    /\ SignatureOf(header).hmac_sha256[1] = SignKey
    /\ SignatureOf(header).hmac_sha256[2] =
          SignUser \o in.http_method \o lower(quote(in.request_url))
              \o in.timestamp \o in.nonce

\* two texts that differ, if at all, in the case of letters only
C12_SameUpToCase(a, b) ==
    /\ Len(a) = Len(b)
    /\ \A i \in 1..Len(a) : LowerChar(a[i]) = LowerChar(b[i])

\* C12 as stated: for fixed method, URL, username, key, nonce and timestamp the
\* header is the same on repeated invocation, varying any one of method, URL or
\* timestamp changes the signature, and the header has the stated format over
\* the stated signed string.
C12_SignerDeterminism ==
    res.done =>
        /\ arg.first = arg.second => res.first = res.second
        /\ C12_VaryOne(arg.first, arg.second)
              => SignatureOf(res.first) # SignatureOf(res.second)
        /\ C12_Format(arg.first, res.first)
        /\ C12_Format(arg.second, res.second)

\* C12 amended: the same, where a variation of the URL in the case of its
\* letters only leaves the signature unchanged and every other variation of
\* the URL changes it.
C12_SignerDeterminismUpToCase ==
    res.done =>
        /\ arg.first = arg.second => res.first = res.second
        /\ C12_VaryOne(arg.first, arg.second)
              => (SignatureOf(res.first) = SignatureOf(res.second)
                    <=> C12_SameUpToCase(arg.first.request_url, arg.second.request_url)
                        /\ arg.first.request_url # arg.second.request_url)
        /\ C12_Format(arg.first, res.first)
        /\ C12_Format(arg.second, res.second)

\* two invocations whose URLs differ in more than case, and two whose URLs
\* differ in case only
C12_Witness ==
    /\ res.done
    /\ arg.first.request_url = <<"h", ":", "/", "/", "g", "/", "r", "?", "u", "=", "a">>
    /\ arg.second.request_url = <<"h", ":", "/", "/", "g", "/", "r", "?", "u", "=", "b">>
    /\ arg.first.http_method = arg.second.http_method
    /\ arg.first.timestamp = arg.second.timestamp
    /\ arg.first.nonce = arg.second.nonce
    /\ SignatureOf(res.first) # SignatureOf(res.second)

-----------------------------------------------------------------------------
(* Progress: gui.py _download_file, chunk by chunk, under download_report    *)
(* and download_all_reports.  arg holds what the server sends for each       *)
(* entry; res is the position of the handler and what it has reported.       *)

MaxLength == 2      \* the largest declared length and the largest body, in bytes
MaxBatch == 2       \* the most entries in reports_data

RECURSIVE SumSeq(_)
SumSeq(q) == IF q = <<>> THEN 0 ELSE Head(q) + SumSeq(Tail(q))

\* what response.iter_content(block_size) yields: non-empty chunks, and one
\* case with an empty chunk first
Chunkings ==
    { c \in UNION { [1..len -> 1..MaxLength] : len \in 0..MaxLength } :
        SumSeq(c) <= MaxLength }
    \cup { <<0, 1>> }

\* an entry and the answer to its GET: the entry lacks its name or URI; the
\* status is an error; or a body is streamed, with the content-length header
\* (0: absent or zero), its chunks, and whether the connection breaks after them
Transfers ==
    { [kind |-> "malformed"], [kind |-> "bad_status"] }
    \cup { [kind |-> "stream", content_length |-> n, chunks |-> c, broken |-> b] :
             n \in 0..MaxLength, c \in Chunkings, b \in BOOLEAN }

\* int(downloaded / total_size * 100); on the lengths of this model Python's
\* float arithmetic gives the integer quotient
Percent(downloaded, total_size) == (downloaded * 100) \div total_size

\* download_report: lambda percent: self.progress_bar.setValue(percent)
\* download_all_reports: lambda percent, idx=index: self.progress_bar.setValue(
\*     int(((idx + percent / 100) / total_reports) * 100))
progress_callback(op, idx, total_reports, percent) ==
    IF op = "download_report" THEN percent
    ELSE (idx * 100 + percent) \div total_reports

\* the report made for a percent: the callback's argument and the bar's value
Reported(op, idx, total_reports, st, percent) ==
    [st EXCEPT !.calls = Append(@, [idx |-> idx, percent |-> percent]),
               !.bar = Append(@, progress_callback(op, idx, total_reports, percent))]

write_chunk_per_chunk(op, total_reports, total_size, st, data) ==
    LET wrote == [st EXCEPT !.k = @ + 1, !.downloaded = @ + data]
    IN  IF data = 0 THEN [st EXCEPT !.k = @ + 1]
        ELSE IF total_size > 0
        THEN Reported(op, st.idx, total_reports, wrote, Percent(data, total_size))
        ELSE wrote

write_chunk_always_reports(op, total_reports, total_size, st, data) ==
    LET wrote == [st EXCEPT !.k = @ + 1, !.downloaded = @ + data]
    IN  IF data = 0 THEN [st EXCEPT !.k = @ + 1]
        ELSE Reported(op, st.idx, total_reports, wrote,
                      IF total_size > 0 THEN Percent(wrote.downloaded, total_size)
                      ELSE 100)

\* one turn of: for data in response.iter_content(block_size): ...
write_chunk(op, total_reports, total_size, st, data) ==
    LET wrote == [st EXCEPT !.k = @ + 1, !.downloaded = @ + data]
    IN  IF data = 0 THEN [st EXCEPT !.k = @ + 1]
        ELSE IF total_size > 0
        THEN Reported(op, st.idx, total_reports, wrote,
                      Percent(wrote.downloaded, total_size))
        ELSE wrote

\* the entry at idx is left with an outcome, and the loop moves on
Leave(st, outcome) ==
    [st EXCEPT !.pc = "loop", !.idx = @ + 1, !.k = 0, !.downloaded = 0,
               !.outcomes = Append(@, outcome)]

\* a click on a row's Download (one entry) or on Download All (reports_data)
InitProgress ==
    /\ Constructed
    /\ arg \in { [op |-> "download_report", reports |-> <<t>>] :
                   t \in Transfers \ {[kind |-> "malformed"]} }
               \cup { [op |-> "download_all_reports", reports |-> r] :
                        r \in UNION { [1..n -> Transfers] : n \in 1..MaxBatch } }
    /\ res = [done |-> FALSE, pc |-> "loop", idx |-> 0, k |-> 0, downloaded |-> 0,
              calls |-> <<>>, bar |-> <<>>, outcomes |-> <<>>]

\* the entry at idx is taken up: passed over, or its GET is answered
ProgressRequest ==
    /\ ~res.done /\ res.pc = "loop" /\ res.idx < Len(arg.reports)
    /\ LET t == arg.reports[res.idx + 1]
       IN  res' = CASE t.kind = "malformed" -> Leave(res, "passed over")
                    [] t.kind = "bad_status" -> Leave(res, "failed")
                    [] OTHER -> [res EXCEPT !.pc = "stream"]
    /\ UNCHANGED <<env, reports_data, table, button, fs, last, arg>>

\* one chunk arrives and is written
ProgressChunk ==
    /\ ~res.done /\ res.pc = "stream"
    /\ LET t == arg.reports[res.idx + 1]
       IN  /\ res.k < Len(t.chunks)
           /\ res' = write_chunk(arg.op, Len(arg.reports), t.content_length, res,
                                 t.chunks[res.k + 1])
    /\ UNCHANGED <<env, reports_data, table, button, fs, last, arg>>

\* the stream ends: the connection broke, or the file is complete
ProgressEndOfStream ==
    /\ ~res.done /\ res.pc = "stream"
    /\ LET t == arg.reports[res.idx + 1]
       IN  /\ res.k = Len(t.chunks)
           /\ res' = IF t.broken THEN Leave(res, "failed")
                     ELSE IF t.content_length = 0
                     THEN Leave(Reported(arg.op, res.idx, Len(arg.reports), res, 100),
                                "saved")
                     ELSE Leave(res, "saved")
    /\ UNCHANGED <<env, reports_data, table, button, fs, last, arg>>

\* the handler returns
ProgressReturn ==
    /\ ~res.done /\ res.pc = "loop" /\ res.idx = Len(arg.reports)
    /\ res' = [res EXCEPT !.done = TRUE]
    /\ UNCHANGED <<env, reports_data, table, button, fs, last, arg>>

NextProgress ==
    \/ ProgressRequest
    \/ ProgressChunk
    \/ ProgressEndOfStream
    \/ ProgressReturn

SpecProgress == InitProgress /\ [][NextProgress]_vars

-----------------------------------------------------------------------------
(* C13, C14, C15: progress *)

\* the values onProgress was given for the entry at idx
CallsOf(idx) ==
    LET mine == SelectSeq(res.calls, LAMBDA c : c.idx = idx)
    IN  [i \in 1..Len(mine) |-> mine[i].percent]

NonDecreasing(q) == \A i, j \in 1..Len(q) : i <= j => q[i] <= q[j]

\* C13: for a download whose total size is the declared content length and
\* whose body arrives in N chunks, the successive onProgress values are
\* non-decreasing and the final value reported equals 100.
C13_ProgressMonotone ==
    \A idx \in 0..(Len(arg.reports) - 1) :
        LET t == arg.reports[idx + 1]
        IN  /\ t.kind = "stream"
            /\ t.content_length > 0
            /\ SumSeq(t.chunks) = t.content_length
            => /\ NonDecreasing(CallsOf(idx))
               /\ (idx < Len(res.outcomes) /\ res.outcomes[idx + 1] = "saved")
                     => /\ CallsOf(idx) # <<>>
                        /\ CallsOf(idx)[Len(CallsOf(idx))] = 100

\* a file of two bytes declared as two, complete after two chunks: 50, then 100
C13_Witness ==
    /\ res.done
    /\ arg.op = "download_report"
    /\ arg.reports[1].kind = "stream"
    /\ arg.reports[1].content_length = 2
    /\ arg.reports[1].chunks = <<1, 1>>
    /\ res.outcomes = <<"saved">>
    /\ CallsOf(0) = <<50, 100>>

\* C14: during a batch of n entries the overall progress value is
\* non-decreasing over the whole batch, within an entry and from one entry to
\* the next, also when entries fail or are passed over, and never exceeds 100.
C14_BatchProgressMonotone ==
    arg.op = "download_all_reports" =>
        /\ NonDecreasing(res.bar)
        /\ \A i \in 1..Len(res.bar) : res.bar[i] <= 100

\* C15: for a download whose content length is unknown or zero, onProgress is
\* not invoked while chunks are written and is invoked exactly once, with 100,
\* after the last chunk; if the download fails, it is not invoked.
C15_UnknownLength ==
    \A idx \in 0..(Len(arg.reports) - 1) :
        LET t == arg.reports[idx + 1]
        IN  t.kind = "stream" /\ t.content_length = 0 =>
               IF idx < Len(res.outcomes)
               THEN CallsOf(idx) = IF res.outcomes[idx + 1] = "saved" THEN <<100>>
                                   ELSE <<>>
               ELSE CallsOf(idx) = <<>>

\* a file without content length, two chunks written, nothing reported yet
C15_Witness ==
    /\ arg.reports[1].kind = "stream"
    /\ arg.reports[1].content_length = 0
    /\ arg.reports[1].chunks = <<1, 1>>
    /\ res.pc = "stream"
    /\ res.idx = 0
    /\ res.k = 2
    /\ res.calls = <<>>

-----------------------------------------------------------------------------
(* C16: the window after a load *)

\* C16: after any sequence of loads, failed at any step or successful, Download
\* All is enabled iff reports_data is non-empty and the table rows that offer a
\* Download button are exactly the entries of reports_data; after a failed load
\* no entry of an earlier load remains downloadable.
C16_TableIsReportsData ==
    /\ button <=> reports_data # <<>>
    /\ table = TableRows(reports_data)
    /\ last.op = "load_reports" /\ last.dialog # ""
          => reports_data = <<>> /\ table = <<>> /\ ~button

=============================================================================
